---- MODULE Spec2Model ----
(***************************************************************************)
(* Model of joy_tennis.py (class WebScraper): the calendar helpers, the    *)
(* checkbox extractor, the sequence generator, the monthly reservation     *)
(* builder, the reservation call and the run_scraper orchestration.        *)
(*                                                                         *)
(* Representation of Python values:                                        *)
(*   - a str is a sequence of one-character strings;                       *)
(*   - a datetime is a triple <<year, month, day>>;                        *)
(*   - strftime('%Y-%m-%d') is the triple of its '-'-separated fields and  *)
(*     strftime('%Y%m%d') is the number year*10000 + month*100 + day;      *)
(*   - an f-string "{v}||4||{d}" is the triple <<v, 4, d>> of its fields;  *)
(*   - an optional value is a record [some, val] (None has some = FALSE).  *)
(***************************************************************************)
EXTENDS Integers, Sequences, FiniteSets, TLC

VARIABLES
    pc,                      \* position of run_scraper, or "call"/"return" of a single function call
    year, month,             \* the target month
    args, ret,               \* arguments and return value of the call
    log,                     \* the requests sent to the portal so far, in order
    login_response,          \* what the login call got back
    PHPSESSID,               \* session.cookies.get('PHPSESSID')
    sunday_values, wednesday_values, saturday_values,
    monthly_reservations,
    attempted,               \* number of reservations tried so far (i of the for loop)
    successful_reservations,
    last_outcome,            \* classification of the latest reservation response
    telegram_bot_token,      \* os.getenv('TELEGRAM_BOT_TOKEN')
    telegram_chat_id,        \* os.getenv('TELEGRAM_CHAT_ID')
    notifications,           \* the messages run_scraper and login handed to send_telegram_message
    telegram_failed          \* some notification so far ended in a RequestException

config_vars == <<telegram_bot_token, telegram_chat_id>>

run_vars == <<log, login_response, PHPSESSID, sunday_values, wednesday_values, saturday_values,
              monthly_reservations, attempted, successful_reservations, last_outcome,
              config_vars, notifications, telegram_failed>>

vars == <<pc, year, month, args, ret, run_vars>>

(***************************************************************************)
(* Bounds of the model.                                                    *)
(***************************************************************************)
MinYear == 2000
MaxYear == 2027
MaxLen == 6
MaxCount == 4
MaxFamily == 5
MaxDocLen == 6
MaxIndex == 2
MaxBody == 3

Years == MinYear .. MaxYear
Months == 1 .. 12
Weekdays == 0 .. 6

(***************************************************************************)
(* datetime / calendar arithmetic (Python's proleptic Gregorian calendar). *)
(***************************************************************************)
isleap(y) == (y % 4 = 0) /\ ((y % 100 # 0) \/ (y % 400 = 0))

mdays(m) == <<31, 28, 31, 30, 31, 30, 31, 31, 30, 31, 30, 31>>[m]

\* calendar.monthrange(year, month)[1]
monthrange_ndays(y, m) == mdays(m) + (IF m = 2 /\ isleap(y) THEN 1 ELSE 0)

RECURSIVE days_before_month(_, _)
days_before_month(y, m) ==
    IF m = 1 THEN 0 ELSE days_before_month(y, m - 1) + monthrange_ndays(y, m - 1)

days_before_year(y) ==
    (y - 1) * 365 + ((y - 1) \div 4) - ((y - 1) \div 100) + ((y - 1) \div 400)

\* date.toordinal(): 1 is 0001-01-01
toordinal(dt) == days_before_year(dt[1]) + days_before_month(dt[1], dt[2]) + dt[3]

\* date.weekday(): 0 = Monday .. 6 = Sunday
date_weekday(dt) == (toordinal(dt) + 6) % 7

next_day(dt) ==
    IF dt[3] < monthrange_ndays(dt[1], dt[2]) THEN <<dt[1], dt[2], dt[3] + 1>>
    ELSE IF dt[2] < 12 THEN <<dt[1], dt[2] + 1, 1>>
    ELSE <<dt[1] + 1, 1, 1>>

prev_day(dt) ==
    IF dt[3] > 1 THEN <<dt[1], dt[2], dt[3] - 1>>
    ELSE IF dt[2] > 1 THEN <<dt[1], dt[2] - 1, monthrange_ndays(dt[1], dt[2] - 1)>>
    ELSE <<dt[1] - 1, 12, 31>>

\* datetime + timedelta(days = n), n of either sign
RECURSIVE date_add(_, _)
date_add(dt, n) ==
    IF n = 0 THEN dt
    ELSE IF n > 0 THEN date_add(next_day(dt), n - 1)
    ELSE date_add(prev_day(dt), n + 1)

\* strftime('%Y-%m-%d'), as its three '-'-separated fields
strftime_dash(dt) == <<dt[1], dt[2], dt[3]>>

\* strftime('%Y%m%d'), as the number its eight digits spell
strftime_ymd(dt) == dt[1] * 10000 + dt[2] * 100 + dt[3]

\* Python's % on a possibly negative left operand: the result is in 0..6
py_mod7(n) == ((n % 7) + 7) % 7

\* Variant: the difference of the weekdays is used without the wrap by 7
get_first_weekday_no_wrap(y, m, wd) ==
    LET first_day == <<y, m, 1>>
        days_ahead == wd - date_weekday(first_day)
    IN  strftime_dash(date_add(first_day, days_ahead))

get_first_weekday_of_month(y, m, wd) ==
    LET first_day == <<y, m, 1>>
        first_weekday == date_weekday(first_day)
        d0 == wd - first_weekday
        days_ahead == IF d0 < 0 THEN d0 + 7 ELSE d0
    IN  strftime_dash(date_add(first_day, days_ahead))

get_last_weekday_of_month(y, m, wd) ==
    LET last_day == <<y, m, monthrange_ndays(y, m)>>
        days_back == py_mod7(date_weekday(last_day) - wd)
    IN  strftime_dash(date_add(last_day, 0 - days_back))

(***************************************************************************)
(* Calendar specification: one call of get_first_weekday_of_month or       *)
(* get_last_weekday_of_month on a (year, month, weekday) triple.           *)
(***************************************************************************)
NoArgs == [fn |-> "none"]
NoRet == <<>>
NoResponse == [error |-> FALSE, status_code |-> 0, content |-> <<>>]

\* The state of a WebScraper on which run_scraper has sent nothing yet
Fresh ==
    /\ log = <<>>
    /\ login_response = NoResponse
    /\ PHPSESSID = [some |-> FALSE, val |-> <<>>]
    /\ sunday_values = <<>>
    /\ wednesday_values = <<>>
    /\ saturday_values = <<>>
    /\ monthly_reservations = <<>>
    /\ attempted = 0
    /\ successful_reservations = 0
    /\ last_outcome = "none"
    /\ notifications = <<>>
    /\ telegram_failed = FALSE

\* Neither notification credential is set
NoTelegram ==
    /\ telegram_bot_token = [some |-> FALSE, val |-> <<>>]
    /\ telegram_chat_id = [some |-> FALSE, val |-> <<>>]

InitCal ==
    /\ pc = "call"
    /\ year \in Years
    /\ month \in Months
    /\ \E wd \in Weekdays, f \in {"get_first_weekday_of_month", "get_last_weekday_of_month"} :
           args = [fn |-> f, weekday |-> wd]
    /\ ret = NoRet
    /\ Fresh
    /\ NoTelegram

CallFirstWeekday ==
    /\ pc = "call"
    /\ args.fn = "get_first_weekday_of_month"
    /\ ret' = get_first_weekday_of_month(year, month, args.weekday)
    /\ pc' = "return"
    /\ UNCHANGED <<year, month, args, run_vars>>

CallLastWeekday ==
    /\ pc = "call"
    /\ args.fn = "get_last_weekday_of_month"
    /\ ret' = get_last_weekday_of_month(year, month, args.weekday)
    /\ pc' = "return"
    /\ UNCHANGED <<year, month, args, run_vars>>

NextCal == CallFirstWeekday \/ CallLastWeekday

SpecCal == InitCal /\ [][NextCal]_vars

\* C7: the first occurrence lies in days 1..7 of the month, the last one in
\* the last seven days of the month, and both fall on the requested weekday.
C7_FirstLastWeekday ==
    pc = "return" =>
        /\ args.fn = "get_first_weekday_of_month" =>
              /\ ret[1] = year /\ ret[2] = month
              /\ ret[3] \in 1 .. 7
              /\ date_weekday(ret) = args.weekday
        /\ args.fn = "get_last_weekday_of_month" =>
              /\ ret[1] = year /\ ret[2] = month
              /\ ret[3] \in (monthrange_ndays(year, month) - 6) .. monthrange_ndays(year, month)
              /\ date_weekday(ret) = args.weekday

(***************************************************************************)
(* Strings and generate_sequential_values.                                 *)
(***************************************************************************)
Alphabet == {"1", "2", "|", "x", "-"}
Digits == <<"0", "1", "2", "3", "4", "5", "6", "7", "8", "9">>

RECURSIVE StringsUpTo(_)
StringsUpTo(n) ==
    IF n = 0 THEN {<<>>}
    ELSE LET shorter == StringsUpTo(n - 1)
         IN  shorter \cup {Append(s, c) : s \in {t \in shorter : Len(t) = n - 1}, c \in Alphabet}

Some(v) == [some |-> TRUE, val |-> v]
None == [some |-> FALSE, val |-> <<>>]

\* Python truthiness of an optional str: None and '' are falsy
truthy(o) == o.some /\ o.val # <<>>

\* str.split('||'): leftmost, non-overlapping separators; cur is the field
\* being accumulated
RECURSIVE split_from(_, _)
split_from(s, cur) ==
    IF s = <<>> THEN <<cur>>
    ELSE IF Len(s) >= 2 /\ s[1] = "|" /\ s[2] = "|"
         THEN <<cur>> \o split_from(SubSeq(s, 3, Len(s)), <<>>)
         ELSE split_from(Tail(s), Append(cur, s[1]))

split(s) == split_from(s, <<>>)

is_digit(c) == \E i \in 1 .. 10 : Digits[i] = c
digit_value(c) == (CHOOSE i \in 1 .. 10 : Digits[i] = c) - 1

RECURSIVE digits_value(_, _)
digits_value(s, acc) ==
    IF s = <<>> THEN acc ELSE digits_value(Tail(s), acc * 10 + digit_value(s[1]))

\* int(str) on the strings of the alphabet: an optional sign followed by one
\* or more decimal digits; anything else raises ValueError (ok = FALSE)
py_int(s) ==
    LET signed == s # <<>> /\ s[1] \in {"-", "+"}
        body == IF signed THEN Tail(s) ELSE s
        ok == body # <<>> /\ \A i \in 1 .. Len(body) : is_digit(body[i])
        mag == IF ok THEN digits_value(body, 0) ELSE 0
    IN  [ok |-> ok, val |-> IF signed /\ s[1] = "-" THEN 0 - mag ELSE mag]

\* Variant: the run starts one above the base number
range_from_next(base_number, count) ==
    [i \in 1 .. (IF count > 0 THEN count ELSE 0) |-> base_number + i]

\* [base_number + i for i in range(count)]
range_from(base_number, count) ==
    [i \in 1 .. (IF count > 0 THEN count ELSE 0) |-> base_number + (i - 1)]

\* Variant: two fields are enough
generate_sequential_values_two_fields(original_value, count) ==
    IF ~truthy(original_value) THEN <<>>
    ELSE LET parts == split(original_value.val)
         IN  IF Len(parts) < 2 THEN <<>>
             ELSE LET base == py_int(parts[1])
                  IN  IF base.ok THEN range_from(base.val, count) ELSE <<>>

generate_sequential_values(original_value, count) ==
    IF ~truthy(original_value) THEN <<>>
    ELSE LET parts == split(original_value.val)
         IN  IF Len(parts) < 3 THEN <<>>
             ELSE LET base == py_int(parts[1])
                  IN  IF base.ok THEN range_from(base.val, count) ELSE <<>>

(***************************************************************************)
(* Sequence-generator specification: one call of                           *)
(* generate_sequential_values on a sample (None or a string) and a count.  *)
(***************************************************************************)
Samples == {None} \cup {Some(s) : s \in StringsUpTo(MaxLen)}

InitFamily ==
    /\ pc = "call"
    /\ year = MinYear
    /\ month = 1
    /\ \E o \in Samples, n \in 0 .. MaxCount :
           args = [fn |-> "generate_sequential_values", original_value |-> o, count |-> n]
    /\ ret = NoRet
    /\ Fresh
    /\ NoTelegram

CallGenerateSequentialValues ==
    /\ pc = "call"
    /\ args.fn = "generate_sequential_values"
    /\ ret' = generate_sequential_values(args.original_value, args.count)
    /\ pc' = "return"
    /\ UNCHANGED <<year, month, args, run_vars>>

NextFamily == CallGenerateSequentialValues

SpecFamily == InitFamily /\ [][NextFamily]_vars

\* Number of "||" separators of a string, counted as split does
separators(s) == Len(split(s)) - 1

\* A well-formed sample "<p>||<c>||<d>": exactly two separators and an
\* integer first field
WellFormed(o) ==
    /\ truthy(o)
    /\ separators(o.val) = 2
    /\ py_int(split(o.val)[1]).ok

\* The '||'-separated fields of an identifier string, the first as a number
identifier_fields(s) == <<py_int(split(s)[1]).val, split(s)[2], split(s)[3]>>

\* The '||'-separated fields of an element of the result: the element is an
\* int, whose text has no separator, so it is its own single field
element_fields(e) == <<e>>

\* C4 as stated: the i-th element of the result is the identifier
\* "<p+i>||<c>||<d>", category code and date copied from the sample.
C4_FamilyOfIdentifiers ==
    (pc = "return" /\ args.fn = "generate_sequential_values" /\ WellFormed(args.original_value)) =>
        /\ Len(ret) = args.count
        /\ \A i \in 1 .. Len(ret) :
              LET f == identifier_fields(args.original_value.val)
              IN  element_fields(ret[i]) = <<f[1] + (i - 1), f[2], f[3]>>

\* C4 amended: for a well-formed sample with integer prefix p and a count
\* n >= 0 the result is the sequence of the n integers p, p+1, .., p+n-1;
\* the category code and the date of the sample are not part of its elements.
C4_FamilyOfPrefixes ==
    (pc = "return" /\ args.fn = "generate_sequential_values" /\ WellFormed(args.original_value)) =>
        /\ Len(ret) = args.count
        /\ \A i \in 1 .. Len(ret) :
              ret[i] = py_int(split(args.original_value.val)[1]).val + (i - 1)

\* A well-formed sample with a category code and four derived prefixes
C4_Witness ==
    /\ pc = "return" /\ args.fn = "generate_sequential_values"
    /\ WellFormed(args.original_value)
    /\ split(args.original_value.val)[2] # <<>>
    /\ args.count = 4
    /\ ret = <<1, 2, 3, 4>>

\* C5: the result is empty when the sample is None or empty, has fewer than
\* two separators or a first field that is not an integer; in every other
\* case it has exactly count elements.
C5_EmptyOrCount ==
    (pc = "return" /\ args.fn = "generate_sequential_values") =>
        LET o == args.original_value
            failing == \/ ~truthy(o)
                       \/ separators(o.val) < 2
                       \/ ~py_int(split(o.val)[1]).ok
        IN  IF failing THEN ret = <<>> ELSE Len(ret) = args.count

\* Three fields but a first field that is no integer: nothing is derived
C5_Witness ==
    /\ pc = "return" /\ args.fn = "generate_sequential_values"
    /\ truthy(args.original_value)
    /\ separators(args.original_value.val) = 2
    /\ ~py_int(split(args.original_value.val)[1]).ok
    /\ args.count > 0
    /\ ret = <<>>

(***************************************************************************)
(* generate_monthly_reservations.                                          *)
(***************************************************************************)
\* datetime <= datetime
date_le(a, b) ==
    \/ a[1] < b[1]
    \/ a[1] = b[1] /\ a[2] < b[2]
    \/ a[1] = b[1] /\ a[2] = b[2] /\ a[3] <= b[3]

\* f"{values[k]}||{code}||{current_date.strftime('%Y%m%d')}" for k = 0..n-1
day_tokens(values, n, code, current_date) ==
    [k \in 1 .. n |-> <<values[k], code, strftime_ymd(current_date)>>]

\* Variant: Saturday taken for weekday 4
appended_on_friday(current_date, sun_values, wed_values, sat_values) ==
    IF date_weekday(current_date) = 6
    THEN IF Len(sun_values) >= 4 THEN day_tokens(sun_values, 4, 4, current_date) ELSE <<>>
    ELSE IF date_weekday(current_date) = 2
    THEN IF Len(wed_values) >= 2 THEN day_tokens(wed_values, 2, 6, current_date) ELSE <<>>
    ELSE IF date_weekday(current_date) = 4
    THEN IF Len(sat_values) >= 2 THEN day_tokens(sat_values, 2, 5, current_date) ELSE <<>>
    ELSE <<>>

\* Variant: a family below its minimum gives the tokens of the values it has
appended_on_partial(current_date, sun_values, wed_values, sat_values) ==
    LET upto(values, n) == IF Len(values) >= n THEN n ELSE Len(values)
    IN  IF date_weekday(current_date) = 6
        THEN day_tokens(sun_values, upto(sun_values, 4), 4, current_date)
        ELSE IF date_weekday(current_date) = 2
        THEN day_tokens(wed_values, upto(wed_values, 2), 6, current_date)
        ELSE IF date_weekday(current_date) = 5
        THEN day_tokens(sat_values, upto(sat_values, 2), 5, current_date)
        ELSE <<>>

\* One iteration of the while loop: what the day appends to reservations
appended_on(current_date, sun_values, wed_values, sat_values) ==
    IF date_weekday(current_date) = 6
    THEN IF Len(sun_values) >= 4 THEN day_tokens(sun_values, 4, 4, current_date) ELSE <<>>
    ELSE IF date_weekday(current_date) = 2
    THEN IF Len(wed_values) >= 2 THEN day_tokens(wed_values, 2, 6, current_date) ELSE <<>>
    ELSE IF date_weekday(current_date) = 5
    THEN IF Len(sat_values) >= 2 THEN day_tokens(sat_values, 2, 5, current_date) ELSE <<>>
    ELSE <<>>

\* while current_date <= last_day_of_month: ...; current_date += timedelta(days=1)
RECURSIVE reservations_loop(_, _, _, _, _, _)
reservations_loop(current_date, last_day_of_month, sun_values, wed_values, sat_values, reservations) ==
    IF date_le(current_date, last_day_of_month)
    THEN reservations_loop(date_add(current_date, 1), last_day_of_month,
                           sun_values, wed_values, sat_values,
                           reservations \o appended_on(current_date, sun_values,
                                                       wed_values, sat_values))
    ELSE reservations

generate_monthly_reservations(y, m, sun_values, wed_values, sat_values) ==
    LET first_day_of_month == <<y, m, 1>>
        last_day_of_month == <<y, m, monthrange_ndays(y, m)>>
    IN  reservations_loop(first_day_of_month, last_day_of_month,
                          sun_values, wed_values, sat_values, <<>>)

(***************************************************************************)
(* Builder specification: one call of generate_monthly_reservations on a   *)
(* month and three families of 0..MaxFamily values.                        *)
(***************************************************************************)
\* The shape of a month: its number of days and the weekday of its first day
Shape(ym) == <<monthrange_ndays(ym[1], ym[2]), date_weekday(<<ym[1], ym[2], 1>>)>>

\* One month of Years for every shape that occurs in Years
ShapeMonths ==
    LET all == Years \X Months
    IN  {CHOOSE ym \in all : Shape(ym) = sh : sh \in {Shape(ym) : ym \in all}}

InitBuild ==
    /\ pc = "call"
    /\ \E ym \in ShapeMonths : year = ym[1] /\ month = ym[2]
    /\ \E ns \in 0 .. MaxFamily, nw \in 0 .. MaxFamily, na \in 0 .. MaxFamily :
           args = [fn |-> "generate_monthly_reservations",
                   sunday_values |-> range_from(100, ns),
                   wednesday_values |-> range_from(200, nw),
                   saturday_values |-> range_from(300, na)]
    /\ ret = NoRet
    /\ Fresh
    /\ NoTelegram

CallGenerateMonthlyReservations ==
    /\ pc = "call"
    /\ args.fn = "generate_monthly_reservations"
    /\ ret' = generate_monthly_reservations(year, month, args.sunday_values,
                                            args.wednesday_values, args.saturday_values)
    /\ pc' = "return"
    /\ UNCHANGED <<year, month, args, run_vars>>

NextBuild == CallGenerateMonthlyReservations

SpecBuild == InitBuild /\ [][NextBuild]_vars

\* The days of the month that fall on a weekday
DaysOn(y, m, wd) == {d \in 1 .. monthrange_ndays(y, m) : date_weekday(<<y, m, d>>) = wd}

\* The tokens a day of the month is due: the first 4 Sunday values with code
\* 4, the first 2 Wednesday values with code 6, the first 2 Saturday values
\* with code 5, each with the day's YYYYMMDD
DueOn(y, m, d, sun, wed, sat) ==
    LET ymd == y * 10000 + m * 100 + d
        wd == date_weekday(<<y, m, d>>)
    IN  IF wd = 6 THEN <<<<sun[1], 4, ymd>>, <<sun[2], 4, ymd>>, <<sun[3], 4, ymd>>, <<sun[4], 4, ymd>>>>
        ELSE IF wd = 2 THEN <<<<wed[1], 6, ymd>>, <<wed[2], 6, ymd>>>>
        ELSE IF wd = 5 THEN <<<<sat[1], 5, ymd>>, <<sat[2], 5, ymd>>>>
        ELSE <<>>

\* The due tokens of days 1..d, by day ascending and by slot within a day
RECURSIVE DueUpTo(_, _, _, _, _, _)
DueUpTo(y, m, d, sun, wed, sat) ==
    IF d = 0 THEN <<>>
    ELSE DueUpTo(y, m, d - 1, sun, wed, sat) \o DueOn(y, m, d, sun, wed, sat)

BuildReturned == pc = "return" /\ args.fn = "generate_monthly_reservations"

FullLength ==
    /\ Len(args.sunday_values) >= 4
    /\ Len(args.wednesday_values) >= 2
    /\ Len(args.saturday_values) >= 2

\* C6: with full-length families the result has 4*Sundays + 2*Wednesdays +
\* 2*Saturdays tokens and is exactly the due tokens of the month's days, by
\* calendar day ascending and by slot index within a day.
C6_BuildMonthFull ==
    (BuildReturned /\ FullLength) =>
        /\ Len(ret) = 4 * Cardinality(DaysOn(year, month, 6))
                      + 2 * Cardinality(DaysOn(year, month, 2))
                      + 2 * Cardinality(DaysOn(year, month, 5))
        /\ ret = DueUpTo(year, month, monthrange_ndays(year, month), args.sunday_values,
                         args.wednesday_values, args.saturday_values)
        /\ \A i \in 1 .. Len(ret) - 1 : ret[i][3] <= ret[i + 1][3]

\* A month of 4 Sundays, 4 Wednesdays and 5 Saturdays gives 34 tokens
C6_Witness ==
    /\ BuildReturned /\ FullLength
    /\ Cardinality(DaysOn(year, month, 6)) = 4
    /\ Cardinality(DaysOn(year, month, 2)) = 4
    /\ Cardinality(DaysOn(year, month, 5)) = 5
    /\ Len(ret) = 34

\* A family padded with zeros to at least n values
Padded(values, n) == [k \in 1 .. (IF Len(values) >= n THEN Len(values) ELSE n) |->
                         IF k <= Len(values) THEN values[k] ELSE 0]

\* The weekday groups (by category code) whose family is below its minimum
Undersized ==
    (IF Len(args.sunday_values) < 4 THEN {4} ELSE {})
    \cup (IF Len(args.wednesday_values) < 2 THEN {6} ELSE {})
    \cup (IF Len(args.saturday_values) < 2 THEN {5} ELSE {})

OfSufficientGroup(token) == token[2] \notin Undersized

\* C10: a weekday whose family is below its minimum contributes no token and
\* the result is the full-length result without that weekday's tokens.
C10_UndersizedFamily ==
    (BuildReturned /\ Undersized # {}) =>
        /\ \A i \in 1 .. Len(ret) : ret[i][2] \notin Undersized
        /\ ret = SelectSeq(DueUpTo(year, month, monthrange_ndays(year, month),
                                   Padded(args.sunday_values, 4),
                                   Padded(args.wednesday_values, 2),
                                   Padded(args.saturday_values, 2)),
                           OfSufficientGroup)

\* A Wednesday family of one value: no Wednesday token, the others are there
C10_Witness ==
    /\ BuildReturned
    /\ Len(args.wednesday_values) = 1
    /\ Len(args.sunday_values) = 4
    /\ Len(args.saturday_values) = 2
    /\ Len(ret) = 4 * Cardinality(DaysOn(year, month, 6)) + 2 * Cardinality(DaysOn(year, month, 5))
    /\ Len(ret) > 0

\* February 2024 has 29 days and ends on a Thursday: its last Friday is the 23rd
C7_Witness ==
    /\ pc = "return" /\ args.fn = "get_last_weekday_of_month"
    /\ monthrange_ndays(year, month) = 29
    /\ args.weekday = 4
    /\ ret[3] = 23

(***************************************************************************)
(* get_data_from_ajax: the response, the parsed document and the lookup.   *)
(*                                                                         *)
(* response.content is a sequence of opening tags in document order (an    *)
(* element ends where the next element of its own or of an enclosing kind  *)
(* opens).  BeautifulSoup turns it into tables of rows of cells of inputs. *)
(***************************************************************************)
Tag(name, class, type, value) == [name |-> name, class |-> class, type |-> type, value |-> value]

TableTag(class) == Tag("table", class, "", None)
TrTag == Tag("tr", <<>>, "", None)
TdTag == Tag("td", <<>>, "", None)
InputTag(type, value) == Tag("input", <<>>, type, value)

\* The nesting depth of a tag
depth(tag) ==
    IF tag.name = "table" THEN 1 ELSE IF tag.name = "tr" THEN 2 ELSE IF tag.name = "td" THEN 3 ELSE 4

\* The position after the last tag of the element that opens at position i
element_end(content, i) ==
    IF \E j \in i + 1 .. Len(content) : depth(content[j]) <= depth(content[i])
    THEN CHOOSE j \in i + 1 .. Len(content) :
             /\ depth(content[j]) <= depth(content[i])
             /\ \A k \in i + 1 .. j - 1 : depth(content[k]) > depth(content[i])
    ELSE Len(content) + 1

\* The positions lo..hi of the tags of a name, in document order
positions(content, name, lo, hi) ==
    LET at == {i \in lo .. hi : content[i].name = name}
    IN  [n \in 1 .. Cardinality(at) |-> CHOOSE i \in at : Cardinality({j \in at : j <= i}) = n]

\* The elements of a name inside the element that opens at position i
inside(content, i, name) == positions(content, name, i + 1, element_end(content, i) - 1)

\* BeautifulSoup(response.content, 'html.parser'): the tables of the
\* document, each with its class tokens and its rows of cells of inputs
BeautifulSoup(content) ==
    LET tables == positions(content, "table", 1, Len(content))
    IN  [t \in 1 .. Len(tables) |->
            [class |-> content[tables[t]].class,
             rows |-> LET trs == inside(content, tables[t], "tr")
                      IN  [r \in 1 .. Len(trs) |->
                              LET tds == inside(content, trs[r], "td")
                              IN  [c \in 1 .. Len(tds) |->
                                      LET inputs == inside(content, tds[c], "input")
                                      IN  [k \in 1 .. Len(inputs) |->
                                              [type |-> content[inputs[k]].type,
                                               value |-> content[inputs[k]].value]]]]]]

\* find(): the index of the first element that matches, 0 (None) if none
\* does; matches[i] tells whether the i-th element matches
first_index(matches) ==
    IF \E i \in 1 .. Len(matches) : matches[i]
    THEN CHOOSE i \in 1 .. Len(matches) : matches[i] /\ \A j \in 1 .. i - 1 : ~matches[j]
    ELSE 0

\* class_='stbl_l1a con_wid': the class attribute is exactly these two tokens
class_is_stbl_l1a_con_wid(table) == table.class = <<"stbl_l1a", "con_wid">>

\* class_='stbl_l1a': one of the class tokens is stbl_l1a
class_has_stbl_l1a(table) == \E i \in 1 .. Len(table.class) : table.class[i] = "stbl_l1a"

is_checkbox(input) == input.type = "checkbox"

\* Variant: the exact class signature is not tried
extract_from_loose_first(response, tr_index, td_index) ==
    IF response.status_code # 200 THEN None
    ELSE LET soup == BeautifulSoup(response.content)
             t2 == first_index([i \in 1 .. Len(soup) |-> class_has_stbl_l1a(soup[i])])
             t == IF t2 # 0 THEN t2 ELSE IF soup # <<>> THEN 1 ELSE 0
         IN  IF t = 0 THEN None
             ELSE LET trs == soup[t].rows
                  IN  IF Len(trs) < tr_index THEN None
                      ELSE LET tds == trs[tr_index]
                           IN  IF Len(tds) < td_index THEN None
                               ELSE LET target_td == tds[td_index]
                                        k == first_index([i \in 1 .. Len(target_td) |-> is_checkbox(target_td[i])])
                                    IN  IF k = 0 THEN None
                                        ELSE IF truthy(target_td[k].value)
                                             THEN target_td[k].value
                                             ELSE None

\* The body of the try block once the response has arrived
extract_from(response, tr_index, td_index) ==
    IF response.status_code # 200 THEN None
    ELSE LET soup == BeautifulSoup(response.content)
             t1 == first_index([i \in 1 .. Len(soup) |-> class_is_stbl_l1a_con_wid(soup[i])])
             t2 == first_index([i \in 1 .. Len(soup) |-> class_has_stbl_l1a(soup[i])])
             t == IF t1 # 0 THEN t1 ELSE IF t2 # 0 THEN t2 ELSE IF soup # <<>> THEN 1 ELSE 0
         IN  IF t = 0 THEN None
             ELSE LET trs == soup[t].rows
                  IN  IF Len(trs) < tr_index THEN None
                      ELSE LET tds == trs[tr_index]
                           IN  IF Len(tds) < td_index THEN None
                               ELSE LET target_td == tds[td_index]
                                        k == first_index([i \in 1 .. Len(target_td) |-> is_checkbox(target_td[i])])
                                    IN  IF k = 0 THEN None
                                        ELSE IF truthy(target_td[k].value)
                                             THEN target_td[k].value
                                             ELSE None

\* A response is a transport error (session.post raised) or a status code
\* with a body
TransportError == [error |-> TRUE, status_code |-> 0, content |-> <<>>]
HttpResponse(status_code, content) == [error |-> FALSE, status_code |-> status_code, content |-> content]

get_data_from_ajax(response, tr_index, td_index) ==
    IF response.error THEN None ELSE extract_from(response, tr_index, td_index)

(***************************************************************************)
(* Extractor specification: one call of get_data_from_ajax on a response   *)
(* of at most MaxDocLen tags and indexes in 1..MaxIndex.                   *)
(***************************************************************************)
TableClasses == {<<>>, <<"stbl_l1a">>, <<"stbl_l1a", "con_wid">>}

InputTags ==
    {InputTag("text", Some(<<"x">>)), InputTag("checkbox", None),
     InputTag("checkbox", Some(<<>>)), InputTag("checkbox", Some(<<"1">>))}

last_index_of(content, name) ==
    IF \E i \in 1 .. Len(content) : content[i].name = name
    THEN CHOOSE i \in 1 .. Len(content) :
             content[i].name = name /\ \A j \in i + 1 .. Len(content) : content[j].name # name
    ELSE 0

\* The tags that may follow a well-nested content: a table anywhere, a row
\* inside a table, a cell inside a row, an input inside a cell
TagsAfter(content) ==
    LET t == last_index_of(content, "table")
        r == last_index_of(content, "tr")
        c == last_index_of(content, "td")
    IN  {TableTag(cl) : cl \in TableClasses}
        \cup (IF t > 0 THEN {TrTag} ELSE {})
        \cup (IF r > t THEN {TdTag} ELSE {})
        \cup (IF r > t /\ c > r THEN InputTags ELSE {})

RECURSIVE ContentsUpTo(_)
ContentsUpTo(n) ==
    IF n = 0 THEN {<<>>}
    ELSE LET shorter == ContentsUpTo(n - 1)
         IN  shorter \cup UNION {{Append(c, tag) : tag \in TagsAfter(c)} :
                                    c \in {d \in shorter : Len(d) = n - 1}}

ExtractResponses ==
    {TransportError, HttpResponse(500, <<>>)}
    \cup {HttpResponse(200, c) : c \in ContentsUpTo(MaxDocLen)}

InitExtract ==
    /\ pc = "call"
    /\ year = MinYear
    /\ month = 1
    /\ \E response \in ExtractResponses, tr \in 1 .. MaxIndex, td \in 1 .. MaxIndex :
           args = [fn |-> "get_data_from_ajax", response |-> response,
                   tr_index |-> tr, td_index |-> td]
    /\ ret = NoRet
    /\ Fresh
    /\ NoTelegram

CallGetDataFromAjax ==
    /\ pc = "call"
    /\ args.fn = "get_data_from_ajax"
    /\ ret' = get_data_from_ajax(args.response, args.tr_index, args.td_index)
    /\ pc' = "return"
    /\ UNCHANGED <<year, month, args, run_vars>>

NextExtract == CallGetDataFromAjax

SpecExtract == InitExtract /\ [][NextExtract]_vars

\* The table the three strategies select, 0 if the document has no table
SelectedTable(doc) ==
    IF \E i \in 1 .. Len(doc) : doc[i].class = <<"stbl_l1a", "con_wid">>
    THEN CHOOSE i \in 1 .. Len(doc) :
             /\ doc[i].class = <<"stbl_l1a", "con_wid">>
             /\ \A j \in 1 .. i - 1 : doc[j].class # <<"stbl_l1a", "con_wid">>
    ELSE IF \E i \in 1 .. Len(doc) : \E k \in 1 .. Len(doc[i].class) : doc[i].class[k] = "stbl_l1a"
    THEN CHOOSE i \in 1 .. Len(doc) :
             /\ \E k \in 1 .. Len(doc[i].class) : doc[i].class[k] = "stbl_l1a"
             /\ \A j \in 1 .. i - 1 : \A k \in 1 .. Len(doc[j].class) : doc[j].class[k] # "stbl_l1a"
    ELSE IF Len(doc) > 0 THEN 1 ELSE 0

\* The checkboxes of a cell, in document order
Checkboxes(cell) == SelectSeq(cell, is_checkbox)

\* The cell at (rowIndex, colIndex) of the selected table has a checkbox
\* whose value is present and not empty
HasValue(doc, rowIndex, colIndex) ==
    /\ SelectedTable(doc) # 0
    /\ Len(doc[SelectedTable(doc)].rows) >= rowIndex
    /\ Len(doc[SelectedTable(doc)].rows[rowIndex]) >= colIndex
    /\ Checkboxes(doc[SelectedTable(doc)].rows[rowIndex][colIndex]) # <<>>
    /\ Checkboxes(doc[SelectedTable(doc)].rows[rowIndex][colIndex])[1].value.some
    /\ Checkboxes(doc[SelectedTable(doc)].rows[rowIndex][colIndex])[1].value.val # <<>>

ExtractReturned ==
    /\ pc = "return" /\ args.fn = "get_data_from_ajax"
    /\ ~args.response.error /\ args.response.status_code = 200

\* C9: on a parsed document the result is NotFound exactly when there is no
\* table, the selected table has too few rows, the row too few cells, or the
\* cell no checkbox with a non-empty value; otherwise it is that value.
C9_ExtractCheckboxValue ==
    ExtractReturned =>
        LET doc == BeautifulSoup(args.response.content)
        IN  IF HasValue(doc, args.tr_index, args.td_index)
            THEN ret = Checkboxes(doc[SelectedTable(doc)].rows[args.tr_index][args.td_index])[1].value
            ELSE ret = None

\* The table of the exact class is the second table of the document, after
\* one of the looser class, and the value comes from its cell
C9_Witness ==
    /\ ExtractReturned
    /\ LET doc == BeautifulSoup(args.response.content)
       IN  /\ Len(doc) = 2
           /\ doc[1].class = <<"stbl_l1a">>
           /\ doc[2].class = <<"stbl_l1a", "con_wid">>
           /\ SelectedTable(doc) = 2
           /\ HasValue(doc, args.tr_index, args.td_index)
    /\ ret = Some(<<"1">>)

(***************************************************************************)
(* make_reservation.  response.text is a sequence of phrases and           *)
(* "phrase in response.text" is the occurrence of the phrase in it.        *)
(***************************************************************************)
CartPhrase == "added to cart"         \* the phrase of line 385
ExcludingPhrase == "excluding items"  \* the phrase of line 387
OtherPhrase == "other text"

contains(text, phrase) == \E k \in 1 .. Len(text) : text[k] = phrase

\* Variant: the excluding phrase makes the reservation a failure
make_reservation_excluding_fails(response) ==
    IF response.error
    THEN [returned |-> FALSE, message |-> "error during reservation"]
    ELSE IF response.status_code = 200
    THEN IF contains(response.content, CartPhrase)
         THEN IF contains(response.content, ExcludingPhrase)
              THEN [returned |-> FALSE, message |-> "reservation failed"]
              ELSE [returned |-> TRUE, message |-> "reservation succeeded"]
         ELSE [returned |-> FALSE, message |-> "reservation failed"]
    ELSE [returned |-> FALSE, message |-> "reservation request failed"]

\* The value returned and the message sent to the operator
make_reservation(response) ==
    IF response.error
    THEN [returned |-> FALSE, message |-> "error during reservation"]
    ELSE IF response.status_code = 200
    THEN IF contains(response.content, CartPhrase)
         THEN IF contains(response.content, ExcludingPhrase)
              THEN [returned |-> TRUE, message |-> "already taken"]
              ELSE [returned |-> TRUE, message |-> "reservation succeeded"]
         ELSE [returned |-> FALSE, message |-> "reservation failed"]
    ELSE [returned |-> FALSE, message |-> "reservation request failed"]

\* The three outcomes, told apart by the message
outcome_of(result) ==
    IF result.message = "reservation succeeded" THEN "Accepted"
    ELSE IF result.message = "already taken" THEN "AcceptedWithExclusion"
    ELSE "Failed"

RECURSIVE TextsUpTo(_)
TextsUpTo(n) ==
    IF n = 0 THEN {<<>>}
    ELSE LET shorter == TextsUpTo(n - 1)
         IN  shorter \cup {Append(t, ph) : t \in {u \in shorter : Len(u) = n - 1},
                                            ph \in {CartPhrase, ExcludingPhrase, OtherPhrase}}

ReserveResponses ==
    {TransportError} \cup {HttpResponse(st, t) : st \in {200, 404, 500}, t \in TextsUpTo(MaxBody)}

(***************************************************************************)
(* Reservation-call specification: one call of make_reservation.           *)
(***************************************************************************)
InitReserve ==
    /\ pc = "call"
    /\ year = MinYear
    /\ month = 1
    /\ \E response \in ReserveResponses : args = [fn |-> "make_reservation", response |-> response]
    /\ ret = NoRet
    /\ Fresh
    /\ NoTelegram

CallMakeReservation ==
    /\ pc = "call"
    /\ args.fn = "make_reservation"
    /\ ret' = make_reservation(args.response)
    /\ pc' = "return"
    /\ UNCHANGED <<year, month, args, run_vars>>

NextReserve == CallMakeReservation

SpecReserve == InitReserve /\ [][NextReserve]_vars

\* C8: Accepted is HTTP 200 with the cart phrase and without the excluding
\* phrase, AcceptedWithExclusion is HTTP 200 with both, Failed is everything
\* else; the first two return success, Failed does not.
C8_Classification ==
    (pc = "return" /\ args.fn = "make_reservation") =>
        LET r == args.response
            ok200 == ~r.error /\ r.status_code = 200
            cart == \E k \in 1 .. Len(r.content) : r.content[k] = CartPhrase
            excl == \E k \in 1 .. Len(r.content) : r.content[k] = ExcludingPhrase
        IN  /\ outcome_of(ret) = "Accepted" <=> (ok200 /\ cart /\ ~excl)
            /\ outcome_of(ret) = "AcceptedWithExclusion" <=> (ok200 /\ cart /\ excl)
            /\ outcome_of(ret) = "Failed" <=> (r.error \/ r.status_code # 200 \/ ~cart)
            /\ ret.returned <=> outcome_of(ret) \in {"Accepted", "AcceptedWithExclusion"}

\* Both phrases in a 200 response: success with exclusion
C8_Witness ==
    /\ pc = "return" /\ args.fn = "make_reservation"
    /\ args.response.status_code = 200
    /\ contains(args.response.content, CartPhrase)
    /\ contains(args.response.content, ExcludingPhrase)
    /\ outcome_of(ret) = "AcceptedWithExclusion"
    /\ ret.returned

(***************************************************************************)
(* login and run_scraper.                                                  *)
(***************************************************************************)
\* Variant: status 200 is enough, the cookie is not looked at
login_without_cookie_check(response, session_id) ==
    IF response.error THEN FALSE ELSE response.status_code = 200

\* login(): the value returned, from the response of the login call and the
\* PHPSESSID cookie of the session after it
login(response, session_id) ==
    IF response.error THEN FALSE
    ELSE IF response.status_code = 200 THEN truthy(session_id)
    ELSE FALSE

login_request == [kind |-> "login"]

\* ajax_data of get_data_from_ajax, date being the fields of 'YYYY-MM-DD'
ajax_request(date, week_code) ==
    [kind |-> "ajax", mode |-> "rent_ymd_chk", sct_key |-> 3, mseason |-> date[2],
     urent_d |-> date, week_chk |-> week_code, cote_cnt |-> 8]

\* reservation_payload of make_reservation
reservation_request(m, reservation_value) ==
    [kind |-> "reserve", mode |-> "cart_list_rent", sct_key |-> 3, mseason |-> m,
     cote_seq_arr |-> reservation_value]

\* Variant: any family is enough
any_collected(sun_values, wed_values, sat_values) ==
    sun_values # <<>> \/ wed_values # <<>> \/ sat_values # <<>>

\* Line 495: all three families are non-empty
all_collected(sun_values, wed_values, sat_values) ==
    sun_values # <<>> /\ wed_values # <<>> /\ sat_values # <<>>

\* Lines 495-497: the month is built when all three families were collected
built_reservations(y, m, sun_values, wed_values, sat_values) ==
    IF all_collected(sun_values, wed_values, sat_values)
    THEN generate_monthly_reservations(y, m, sun_values, wed_values, sat_values)
    ELSE <<>>

\* Variant: the loop ends at the first reservation that fails
loop_stops_on_failure(n_attempted, n_reservations, returned) ==
    n_attempted < n_reservations /\ returned

\* The for loop of line 506 goes on to the next reservation whatever the
\* previous one returned
loop_continues(n_attempted, n_reservations, returned) == n_attempted < n_reservations

\* Variant: a group without values ends the run
stop_after_failed_collection(next_pc, values) == IF values = <<>> THEN "returned" ELSE next_pc

\* Lines 456-460, 470-474: whatever a group yielded, the next group is queried
after_collection(next_pc, values) == next_pc

\* Lines 379-410, 508: make_reservation returns its verdict unless the
\* notification raised inside its try block, which makes it return False
reservation_returns(result, notified) == result.returned /\ ~notified.raised

\* Variant: one value fewer than asked for is derived
collected_values_one_short(value, count) ==
    IF truthy(value) THEN generate_sequential_values(value, count - 1) ELSE <<>>

\* The families collected from a sample: lines 452-453, 466-467, 480-481
collected_values(value, count) ==
    IF truthy(value) THEN generate_sequential_values(value, count) ELSE <<>>

\* The return value of run_scraper: None, or the keys of the results dict
ReturnedNone == [none |-> TRUE, keys |-> {}]
Results(sun_values, wed_values, sat_values, reservations) ==
    [none |-> FALSE,
     keys |-> (IF sun_values # <<>> THEN {"sunday"} ELSE {})
              \cup (IF wed_values # <<>> THEN {"wednesday"} ELSE {})
              \cup (IF sat_values # <<>> THEN {"saturday"} ELSE {})
              \cup (IF reservations # <<>> THEN {"monthly_reservations"} ELSE {})]

(***************************************************************************)
(* The responses of the portal in a run.                                   *)
(***************************************************************************)
\* A page with one table of nrows rows of ncols cells, each cell with one
\* checkbox; the checkbox of cell (r0, c0) carries the sample
GridContent(class, nrows, ncols, r0, c0, sample) ==
    <<TableTag(class)>> \o
    [k \in 1 .. nrows * (1 + 2 * ncols) |->
        LET r == ((k - 1) \div (1 + 2 * ncols)) + 1
            j == (k - 1) % (1 + 2 * ncols)
        IN  IF j = 0 THEN TrTag
            ELSE IF j % 2 = 1 THEN TdTag
            ELSE InputTag("checkbox", Some(IF r = r0 /\ (j \div 2) = c0 THEN sample ELSE <<"x">>))]

LoginResponses ==
    {[response |-> TransportError, cookie |-> None],
     [response |-> HttpResponse(500, <<>>), cookie |-> None],
     [response |-> HttpResponse(500, <<>>), cookie |-> Some(<<"x">>)],
     [response |-> HttpResponse(200, <<>>), cookie |-> None],
     [response |-> HttpResponse(200, <<>>), cookie |-> Some(<<"x">>)]}

\* What a discovery query aimed at cell (r0, c0) may get back: an error, a
\* failure status, a page without table, a page one row short, a page whose
\* sample has no integer prefix, a page with a well-formed sample
AjaxResponses(r0, c0, sample) ==
    {TransportError,
     HttpResponse(500, <<>>),
     HttpResponse(200, <<>>),
     HttpResponse(200, GridContent(<<"stbl_l1a", "con_wid">>, r0 - 1, c0, r0, c0, sample)),
     HttpResponse(200, GridContent(<<"stbl_l1a">>, r0, c0, r0, c0, <<"x">> \o sample)),
     HttpResponse(200, GridContent(<<"stbl_l1a", "con_wid">>, r0, c0, r0, c0, sample))}

SundaySample == <<"1", "1", "|", "|", "4", "|", "|", "1">>
WednesdaySample == <<"2", "1", "|", "|", "6", "|", "|", "1">>
SaturdaySample == <<"3", "1", "|", "|", "5", "|", "|", "1">>

RunReserveResponses ==
    {TransportError,
     HttpResponse(500, <<CartPhrase>>),
     HttpResponse(200, <<OtherPhrase>>),
     HttpResponse(200, <<CartPhrase>>),
     HttpResponse(200, <<OtherPhrase, CartPhrase, ExcludingPhrase>>)}

(***************************************************************************)
(* send_telegram_message.                                                  *)
(***************************************************************************)
\* What requests.post and raise_for_status of lines 64-65 may do: succeed,
\* or raise a RequestException
PostOutcomes == {"ok", "RequestException"}

\* Variant: the RequestException of a failed post is not caught
send_telegram_message_raising(bot_token, chat_id, post) ==
    IF ~truthy(bot_token) \/ ~truthy(chat_id)
    THEN [raised |-> FALSE, delivery |-> "skipped"]
    ELSE IF post = "ok"
    THEN [raised |-> FALSE, delivery |-> "sent"]
    ELSE [raised |-> TRUE, delivery |-> "failed"]

\* Lines 48-68: whether the call raises, and what became of the message
send_telegram_message(bot_token, chat_id, post) ==
    IF ~truthy(bot_token) \/ ~truthy(chat_id)
    THEN [raised |-> FALSE, delivery |-> "skipped"]
    ELSE IF post = "ok"
    THEN [raised |-> FALSE, delivery |-> "sent"]
    ELSE [raised |-> FALSE, delivery |-> "failed"]

\* The notification calls of a step: calls[i] is the result of the i-th call
some_failed(calls) == \E i \in 1 .. Len(calls) : calls[i].delivery = "failed"

some_raised(calls) == \E i \in 1 .. Len(calls) : calls[i].raised

\* The first n results of a sequence of calls
made(calls, n) == SubSeq(calls, 1, n)

\* The credentials a run may have: both set, no token, or an empty chat id
TelegramCredentials ==
    {[bot_token |-> [some |-> TRUE, val |-> <<"x">>], chat_id |-> [some |-> TRUE, val |-> <<"1">>]],
     [bot_token |-> [some |-> FALSE, val |-> <<>>], chat_id |-> [some |-> TRUE, val |-> <<"1">>]],
     [bot_token |-> [some |-> TRUE, val |-> <<"x">>], chat_id |-> [some |-> TRUE, val |-> <<>>]]}

\* The message login() sends: lines 139, 143, 147, 152
login_message(response, session_id) ==
    IF response.error THEN "login error"
    ELSE IF response.status_code # 200 THEN "login failed: status code"
    ELSE IF truthy(session_id) THEN "login succeeded"
    ELSE "login failed: no cookie"

\* The message of lines 458, 472, 486 when no value was extracted
collection_messages(value, day) ==
    IF truthy(value) THEN <<>> ELSE <<"collection failed: " \o day>>

\* The messages of lines 513-531 once the three families are known: the
\* branch taken at lines 495 and 501 and, when no reservation is to be made,
\* the closing message of line 531
closing_messages(sun_values, wed_values, sat_values, reservations) ==
    IF ~all_collected(sun_values, wed_values, sat_values)
    THEN <<"terminated: data collection failed", "run complete">>
    ELSE IF reservations = <<>>
    THEN <<"terminated: no reservation data generated", "run complete">>
    ELSE <<>>

(***************************************************************************)
(* run_scraper, one action per request sent to the portal.  An exception   *)
(* that leaves run_scraper ends the run at pc = "raised".                  *)
(***************************************************************************)
Init ==
    /\ pc = "login"
    /\ \E ym \in ShapeMonths : year = ym[1] /\ month = ym[2]
    /\ args = [fn |-> "run_scraper"]
    /\ ret = NoRet
    /\ Fresh
    /\ \E c \in TelegramCredentials :
           telegram_bot_token = c.bot_token /\ telegram_chat_id = c.chat_id

\* Lines 424-430: the start message and the login call with its message (a
\* raise inside the try of login() makes it return False); a failed login
\* sends the termination message and returns None
Login ==
    /\ pc = "login"
    /\ \E r \in LoginResponses, p1 \in PostOutcomes, p2 \in PostOutcomes, p3 \in PostOutcomes :
           LET started == send_telegram_message(telegram_bot_token, telegram_chat_id, p1)
               told == send_telegram_message(telegram_bot_token, telegram_chat_id, p2)
               ended == send_telegram_message(telegram_bot_token, telegram_chat_id, p3)
               logged_in == login(r.response, r.cookie) /\ ~told.raised
           IN  IF started.raised
               THEN /\ pc' = "raised"
                    /\ notifications' = <<"script start">>
                    /\ telegram_failed' = TRUE
                    /\ UNCHANGED <<login_response, PHPSESSID, log, ret>>
               ELSE /\ login_response' = r.response
                    /\ PHPSESSID' = r.cookie
                    /\ log' = Append(log, login_request)
                    /\ IF logged_in
                       THEN /\ pc' = "collect_sunday"
                            /\ ret' = ret
                            /\ notifications' = <<"script start", login_message(r.response, r.cookie)>>
                            /\ telegram_failed' = some_failed(<<started, told>>)
                       ELSE /\ pc' = IF ended.raised THEN "raised" ELSE "returned"
                            /\ ret' = ReturnedNone
                            /\ notifications' = <<"script start", login_message(r.response, r.cookie),
                                                  "terminated: login failed">>
                            /\ telegram_failed' = some_failed(<<started, told, ended>>)
    /\ UNCHANGED <<year, month, args, sunday_values, wednesday_values, saturday_values,
                   monthly_reservations, attempted, successful_reservations, last_outcome,
                   config_vars>>

\* Lines 435, 446-458: the Sunday query (week_chk 0, row 2, column 4)
CollectSunday ==
    /\ pc = "collect_sunday"
    /\ \E response \in AjaxResponses(2, 4, SundaySample) :
           /\ log' = Append(log, ajax_request(get_first_weekday_of_month(year, month, 6), 0))
           /\ \E sunday_value \in {get_data_from_ajax(response, 2, 4)} :
                  /\ sunday_values' = collected_values(sunday_value, 4)
                  /\ notifications' = notifications \o collection_messages(sunday_value, "sunday")
           /\ \E p1 \in PostOutcomes :
                  /\ telegram_failed' =
                         (telegram_failed \/ some_failed(made(
                              <<send_telegram_message(telegram_bot_token, telegram_chat_id, p1)>>,
                              Len(notifications') - Len(notifications))))
                  /\ pc' = IF some_raised(made(
                                  <<send_telegram_message(telegram_bot_token, telegram_chat_id, p1)>>,
                                  Len(notifications') - Len(notifications)))
                           THEN "raised"
                           ELSE after_collection("collect_wednesday", sunday_values')
    /\ UNCHANGED <<year, month, args, ret, login_response, PHPSESSID, wednesday_values,
                   saturday_values, monthly_reservations, attempted, successful_reservations,
                   last_outcome, config_vars>>

\* Lines 436, 460-472: the Wednesday query (week_chk 3, row 16, column 6)
CollectWednesday ==
    /\ pc = "collect_wednesday"
    /\ \E response \in AjaxResponses(16, 6, WednesdaySample) :
           /\ log' = Append(log, ajax_request(get_first_weekday_of_month(year, month, 2), 3))
           /\ \E wednesday_value \in {get_data_from_ajax(response, 16, 6)} :
                  /\ wednesday_values' = collected_values(wednesday_value, 2)
                  /\ notifications' = notifications \o collection_messages(wednesday_value, "wednesday")
           /\ \E p1 \in PostOutcomes :
                  /\ telegram_failed' =
                         (telegram_failed \/ some_failed(made(
                              <<send_telegram_message(telegram_bot_token, telegram_chat_id, p1)>>,
                              Len(notifications') - Len(notifications))))
                  /\ pc' = IF some_raised(made(
                                  <<send_telegram_message(telegram_bot_token, telegram_chat_id, p1)>>,
                                  Len(notifications') - Len(notifications)))
                           THEN "raised"
                           ELSE after_collection("collect_saturday", wednesday_values')
    /\ UNCHANGED <<year, month, args, ret, login_response, PHPSESSID, sunday_values,
                   saturday_values, monthly_reservations, attempted, successful_reservations,
                   last_outcome, config_vars>>

\* Lines 437, 474-503 and, without reservations, 515-532: the Saturday query
\* (week_chk 6, row 14, column 5), the check of the three families, the build
\* of the month and, when nothing is to be reserved, the closing messages
CollectSaturday ==
    /\ pc = "collect_saturday"
    /\ \E response \in AjaxResponses(14, 5, SaturdaySample) :
           /\ log' = Append(log, ajax_request(get_first_weekday_of_month(year, month, 5), 6))
           /\ \E saturday_value \in {get_data_from_ajax(response, 14, 5)} :
                  /\ saturday_values' = collected_values(saturday_value, 2)
                  /\ monthly_reservations' =
                         built_reservations(year, month, sunday_values, wednesday_values,
                                            saturday_values')
                  /\ notifications' =
                         notifications
                         \o collection_messages(saturday_value, "saturday")
                         \o closing_messages(sunday_values, wednesday_values, saturday_values',
                                             monthly_reservations')
           /\ \E p1 \in PostOutcomes, p2 \in PostOutcomes, p3 \in PostOutcomes :
                  /\ telegram_failed' =
                         (telegram_failed \/ some_failed(made(
                              <<send_telegram_message(telegram_bot_token, telegram_chat_id, p1),
                                send_telegram_message(telegram_bot_token, telegram_chat_id, p2),
                                send_telegram_message(telegram_bot_token, telegram_chat_id, p3)>>,
                              Len(notifications') - Len(notifications))))
                  /\ IF some_raised(made(
                            <<send_telegram_message(telegram_bot_token, telegram_chat_id, p1),
                              send_telegram_message(telegram_bot_token, telegram_chat_id, p2),
                              send_telegram_message(telegram_bot_token, telegram_chat_id, p3)>>,
                            Len(notifications') - Len(notifications)))
                     THEN pc' = "raised" /\ ret' = ret
                     ELSE IF monthly_reservations' # <<>>
                     THEN pc' = "reserve" /\ ret' = ret
                     ELSE /\ pc' = "returned"
                          /\ ret' = Results(sunday_values, wednesday_values, saturday_values',
                                            monthly_reservations')
    /\ UNCHANGED <<year, month, args, login_response, PHPSESSID, sunday_values,
                   wednesday_values, attempted, successful_reservations, last_outcome,
                   config_vars>>

\* Lines 506-510 and, after the last reservation, 511-532: one reservation
\* request, its classification, its message (a raise inside the try of
\* make_reservation makes it return False) and the count of successes; after
\* the last one the summary and the closing message
Reserve ==
    /\ pc = "reserve"
    /\ \E response \in RunReserveResponses, p1 \in PostOutcomes :
           /\ log' = Append(log, reservation_request(month, monthly_reservations[attempted + 1]))
           /\ last_outcome' = outcome_of(make_reservation(response))
           /\ successful_reservations' =
                  IF reservation_returns(make_reservation(response),
                         send_telegram_message(telegram_bot_token, telegram_chat_id, p1))
                  THEN successful_reservations + 1
                  ELSE successful_reservations
           /\ attempted' = attempted + 1
           /\ IF loop_continues(attempted + 1, Len(monthly_reservations),
                     reservation_returns(make_reservation(response),
                         send_telegram_message(telegram_bot_token, telegram_chat_id, p1)))
              THEN /\ pc' = "reserve"
                   /\ ret' = ret
                   /\ notifications' = notifications
                   /\ telegram_failed' =
                          (telegram_failed \/ some_failed(
                               <<send_telegram_message(telegram_bot_token, telegram_chat_id, p1)>>))
              ELSE \E p2 \in PostOutcomes, p3 \in PostOutcomes :
                   /\ pc' = IF some_raised(
                                   <<send_telegram_message(telegram_bot_token, telegram_chat_id, p2),
                                     send_telegram_message(telegram_bot_token, telegram_chat_id, p3)>>)
                            THEN "raised" ELSE "returned"
                   /\ ret' = Results(sunday_values, wednesday_values, saturday_values,
                                     monthly_reservations)
                   /\ notifications' = notifications \o <<"attempts complete", "run complete">>
                   /\ telegram_failed' =
                          (telegram_failed \/ some_failed(
                               <<send_telegram_message(telegram_bot_token, telegram_chat_id, p1),
                                 send_telegram_message(telegram_bot_token, telegram_chat_id, p2),
                                 send_telegram_message(telegram_bot_token, telegram_chat_id, p3)>>))
    /\ UNCHANGED <<year, month, args, login_response, PHPSESSID, sunday_values,
                   wednesday_values, saturday_values, monthly_reservations, config_vars>>

Next == Login \/ CollectSunday \/ CollectWednesday \/ CollectSaturday \/ Reserve

Spec == Init /\ [][Next]_vars

\* The requests of a kind that were sent, in order
is_login(request) == request.kind = "login"
is_ajax(request) == request.kind = "ajax"
is_reserve(request) == request.kind = "reserve"

\* The tokens submitted so far, in order
Submitted == [k \in 1 .. Len(SelectSeq(log, is_reserve)) |-> SelectSeq(log, is_reserve)[k].cote_seq_arr]

\* Login failed as the claim describes it: a transport error, a status
\* other than 200, or no session cookie after the call
LoginFailed ==
    /\ Len(log) >= 1
    /\ \/ login_response.error
       \/ login_response.status_code # 200
       \/ ~PHPSESSID.some

\* C1: after a failed login the run has halted and the login request is the
\* only request it ever sent.
C1_NoRequestAfterFailedLogin ==
    LoginFailed =>
        /\ pc = "returned"
        /\ log = <<login_request>>
        /\ SelectSeq(log, is_ajax) = <<>>
        /\ SelectSeq(log, is_reserve) = <<>>

\* A login answered 200 without cookie halts the run
C1_Witness ==
    /\ pc = "returned"
    /\ ~login_response.error /\ login_response.status_code = 200 /\ ~PHPSESSID.some
    /\ log = <<login_request>>
    /\ ret = ReturnedNone

\* Discovery is over: the three queries were sent
Discovered == Len(SelectSeq(log, is_ajax)) = 3

\* C2: if after discovery one of the three families is empty, no reservation
\* request is sent.
C2_NoPartialMonth ==
    (Discovered /\ (sunday_values = <<>> \/ wednesday_values = <<>> \/ saturday_values = <<>>)) =>
        SelectSeq(log, is_reserve) = <<>>

\* Only the Wednesday family is empty and nothing was submitted
C2_Witness ==
    /\ Discovered
    /\ pc = "returned"
    /\ Len(sunday_values) = 4 /\ wednesday_values = <<>> /\ Len(saturday_values) = 2
    /\ SelectSeq(log, is_reserve) = <<>>

\* C3: the tokens submitted so far are the first ones of the built sequence
\* in its order, the run does not end before all of them were submitted once,
\* and the built sequence is by date ascending and by slot within a date.
C3_SequentialSubmission ==
    /\ Len(Submitted) <= Len(monthly_reservations)
    /\ Submitted = SubSeq(monthly_reservations, 1, Len(Submitted))
    /\ Len(Submitted) = attempted
    /\ pc = "returned" => Submitted = monthly_reservations
    /\ \A k \in 1 .. Len(monthly_reservations) - 1 :
          \/ monthly_reservations[k][3] < monthly_reservations[k + 1][3]
          \/ /\ monthly_reservations[k][3] = monthly_reservations[k + 1][3]
             /\ monthly_reservations[k][1] < monthly_reservations[k + 1][1]

\* The run ended after all tokens; some were accepted, some failed, the last
\* one among them
C3_Witness ==
    /\ pc = "returned"
    /\ monthly_reservations # <<>>
    /\ Submitted = monthly_reservations
    /\ successful_reservations > 0
    /\ successful_reservations < attempted
    /\ last_outcome = "Failed"

\* The messages handed to send_telegram_message so far contain this one
Notified(message) == \E k \in 1 .. Len(notifications) : notifications[k] = message

\* The run has failed: the login was refused, or discovery is over and a
\* weekday group has no family
Failed ==
    \/ LoginFailed
    \/ Discovered /\ ~all_collected(sunday_values, wednesday_values, saturday_values)

\* C11: once the run has failed it never reports the run as completed (the
\* closing message of line 531 is not among its notifications) and it has
\* returned, so that it takes no further step.
C11_FailedIsAbsorbing ==
    Failed => (pc = "returned" /\ ~Notified("run complete"))

\* The login succeeded: run_scraper went on to discovery
LoggedIn == Len(log) >= 1 /\ ~LoginFailed

\* The three discovery queries of a run, in the order of lines 449, 463, 477
DiscoveryQueries ==
    <<ajax_request(get_first_weekday_of_month(year, month, 6), 0),
      ajax_request(get_first_weekday_of_month(year, month, 2), 3),
      ajax_request(get_first_weekday_of_month(year, month, 5), 6)>>

\* The number of groups whose discovery is over
GroupsDone ==
    IF pc = "collect_sunday" THEN 0
    ELSE IF pc = "collect_wednesday" THEN 1
    ELSE IF pc = "collect_saturday" THEN 2
    ELSE 3

\* C12: in a run whose login succeeded the discovery queries sent so far are
\* those of Sunday, Wednesday and Saturday in that order, one for each group
\* whose discovery is over, and all three once the run is past discovery,
\* whatever the earlier groups yielded; the family of a group is empty or
\* the family of the value at its own position (Sunday row 2 column 4,
\* Wednesday row 16 column 6, Saturday row 14 column 5), whatever the families
\* of the other groups are.
C12_IndependentDiscovery ==
    LoggedIn =>
        /\ SelectSeq(log, is_ajax) = SubSeq(DiscoveryQueries, 1, GroupsDone)
        /\ pc \in {"collect_sunday", "collect_wednesday", "collect_saturday", "reserve", "returned"}
        /\ sunday_values \in {<<>>, collected_values(Some(SundaySample), 4)}
        /\ wednesday_values \in {<<>>, collected_values(Some(WednesdaySample), 2)}
        /\ saturday_values \in {<<>>, collected_values(Some(SaturdaySample), 2)}
        /\ GroupsDone < 1 => sunday_values = <<>>
        /\ GroupsDone < 2 => wednesday_values = <<>>
        /\ GroupsDone < 3 => saturday_values = <<>>

\* The Sunday group failed, and the Wednesday and Saturday groups were
\* queried after it and yielded their families
C12_Witness ==
    /\ LoggedIn
    /\ Discovered
    /\ sunday_values = <<>>
    /\ wednesday_values = <<21, 22>>
    /\ saturday_values = <<31, 32>>
    /\ Notified("collection failed: sunday")

\* The number of tokens of a full month: 4 for each Sunday, 2 for each
\* Wednesday and 2 for each Saturday
\* The number of days of a month that fall on a weekday: the first one and
\* every seventh day after it
CountOn(y, m, wd) ==
    ((monthrange_ndays(y, m) - get_first_weekday_of_month(y, m, wd)[3]) \div 7) + 1

FullMonthCount(y, m) == 4 * CountOn(y, m, 6) + 2 * CountOn(y, m, 2) + 2 * CountOn(y, m, 5)

\* The builder was called: discovery is over and no family is empty
BuilderCalled == Discovered /\ all_collected(sunday_values, wednesday_values, saturday_values)

\* C14: each family is empty or of its full length (Sunday 4, Wednesday 2,
\* Saturday 2); when the builder was called the month it built has
\* 4*Sundays + 2*Wednesdays + 2*Saturdays tokens, a number between 32 and 38,
\* and a run that returned has sent exactly that many reservation requests;
\* the message of the branch without reservation data is never sent.
C14_FullMonthRequests ==
    /\ Len(sunday_values) \in {0, 4}
    /\ Len(wednesday_values) \in {0, 2}
    /\ Len(saturday_values) \in {0, 2}
    /\ ~Notified("terminated: no reservation data generated")
    /\ BuilderCalled =>
          /\ Len(monthly_reservations) = FullMonthCount(year, month)
          /\ Len(monthly_reservations) \in 32 .. 38
          /\ pc \in {"reserve", "returned"}
          /\ pc = "returned" => Len(SelectSeq(log, is_reserve)) = Len(monthly_reservations)

\* A run of a month with five Sundays and five Saturdays has returned after
\* 38 reservation requests
C14_Witness ==
    /\ pc = "returned"
    /\ BuilderCalled
    /\ CountOn(year, month, 6) = 5
    /\ CountOn(year, month, 5) = 5
    /\ Len(SelectSeq(log, is_reserve)) = 38
    /\ Notified("attempts complete")

\* What the portal's answers alone dictate for the state of the run: no
\* exception has left run_scraper, the run went on to discovery exactly when
\* the login response says so, and a run that returned with its month built
\* has submitted all of it
PortalDictatesState ==
    /\ pc # "raised"
    /\ Len(log) >= 1 =>
          /\ login(login_response, PHPSESSID) <=> pc # "returned" \/ ret # ReturnedNone
          /\ login(login_response, PHPSESSID) =>
                SelectSeq(log, is_ajax) = SubSeq(DiscoveryQueries, 1, GroupsDone)
          /\ ~login(login_response, PHPSESSID) => log = <<login_request>>
    /\ (pc = "returned" /\ BuilderCalled) => Submitted = monthly_reservations
    /\ attempted = Len(Submitted)
    /\ successful_reservations <= attempted

\* What the portal's answer alone dictates for a submission: the next token
\* is requested, and it counts as a success exactly when it is classified
\* Accepted or AcceptedWithExclusion
PortalDictatesCounts ==
    attempted' # attempted =>
        /\ attempted' = attempted + 1
        /\ log' = Append(log, reservation_request(month, monthly_reservations[attempted']))
        /\ successful_reservations' =
               IF last_outcome' \in {"Accepted", "AcceptedWithExclusion"}
               THEN successful_reservations + 1
               ELSE successful_reservations

\* C13: whatever becomes of the notifications (sent, failed with a
\* RequestException, or skipped for a missing credential), the requests sent
\* to the portal, the classification and the counts of the submissions and
\* the state the run reaches are what the portal's answers dictate: no
\* exception of a notification leaves run_scraper, login or make_reservation.
C13_NotificationsSwallowed == [](PortalDictatesState) /\ [][PortalDictatesCounts]_vars

\* A run in which a notification failed has submitted its whole month, with
\* accepted and refused reservations
C13_Witness ==
    /\ pc = "returned"
    /\ telegram_failed
    /\ BuilderCalled
    /\ Submitted = monthly_reservations
    /\ successful_reservations > 0
    /\ successful_reservations < attempted
    /\ Notified("run complete")

====
